---- MODULE Spec2Model ----
(***************************************************************************)
(* A model of fplData.py: one sequential run that loads the league and the *)
(* player catalog, then aggregates chip usage, captaincy and transfers and *)
(* writes the workbook.  Every requests.get is a nondeterministic choice   *)
(* of a response from the data provider.                                   *)
(***************************************************************************)
EXTENDS Integers, Sequences, FiniteSets, TLC

VARIABLES
    pc,                            \* position of the script
    response,                      \* line 12: the standings response
    bootstrap_status,              \* line 25: status of the catalog response
    entry_map, entries,            \* lines 15-22
    id_to_name, id_to_team, id_to_position,   \* lines 30-32
    entry_idx,                     \* position of "for entry_id in entries"
    chip_data, free_hit_by_entry, triple_captain_week_by_entry,  \* lines 35-37
    hist_log,                      \* the history response each entry got
    gw,                            \* line 105: loop variable
    player_points_map,             \* line 115
    captaincy_data,                \* line 103
    live_log, picks_log,           \* the live / picks responses of step 2
    all_transfers,                 \* line 148
    transfers_log,                 \* the transfer response each entry got
    df_transfers,                  \* line 177
    workbook,                      \* lines 186-201: the file on disk
    requests                       \* number of requests.get calls issued

vars == <<pc, response, bootstrap_status, entry_map, entries, id_to_name,
          id_to_team, id_to_position, entry_idx, chip_data, free_hit_by_entry,
          triple_captain_week_by_entry, hist_log, gw, player_points_map,
          captaincy_data, live_log, picks_log, all_transfers, transfers_log,
          df_transfers, workbook, requests>>

----------------------------------------------------------------------------
(* Bounds of the model *)

\* Length of the season the captaincy loop walks; the script's range(1, 39)
\* is 38 gameweeks, the model walks 1..LastGameweek.
LastGameweek == 2
\* Longest chip-activation list a history response carries.
MaxChips == 2
\* Longest transfer log a transfers response carries.
MaxTransfers == 2

(* Program constants *)

\* line 65: if gw <= 20
WildcardThreshold == 20

\* The sentinel '-' of a numeric field, and Python's None.
Dash == 0 - 1
None == 0 - 2
DashStr == "-"

\* Python truthiness of an int-or-None value (lines 81, 90, 127).
Truthy(x) == x # None /\ x # 0

\* dict.get(key, default)
Get(dict, key, default) == IF key \in DOMAIN dict THEN dict[key] ELSE default

\* Sequences over S of length at most n.
SeqUpTo(S, n) == UNION {[1..k -> S] : k \in 0..n}

----------------------------------------------------------------------------
(* Step 0: reference data, lines 11-32 *)

\* Bodies the standings endpoint may send.
StandingsBody ==
    [kind |-> "standings",
     results |-> << [entry |-> 101, player_name |-> "Bob", entry_name |-> "B FC"],
                    [entry |-> 102, player_name |-> "Ann", entry_name |-> "A Utd"] >>]
NotJsonBody == [kind |-> "not_json", results |-> <<>>]

\* Bodies the bootstrap-static endpoint may send.
CatalogBody ==
    [kind |-> "catalog",
     elements |-> << [id |-> 1, web_name |-> "Salah", team |-> 1, element_type |-> 2],
                     [id |-> 2, web_name |-> "Haaland", team |-> 2, element_type |-> 1] >>,
     teams |-> <<"Liverpool", "Man City">>,
     element_types |-> <<"Forward", "Midfielder">>]
CatalogBadTeamBody ==
    [kind |-> "catalog",
     elements |-> << [id |-> 1, web_name |-> "Salah", team |-> 3, element_type |-> 2] >>,
     teams |-> <<"Liverpool", "Man City">>,
     element_types |-> <<"Forward", "Midfielder">>]
NotJsonCatalog == [kind |-> "not_json", elements |-> <<>>, teams |-> <<>>,
                   element_types |-> <<>>]

\* Python list indexing seq[k] (0-based, negative k counts from the end).
InRange(seq, k) == k < Len(seq) /\ 0 - k <= Len(seq)
PyIndex(seq, k) == IF k >= 0 THEN seq[k + 1] ELSE seq[Len(seq) + k + 1]

\* lines 15-22: entry_map and list(entry_map.keys()); a dict keeps the
\* position of a key's first insertion and the value of its last.
RECURSIVE KeysInOrder(_, _)
KeysInOrder(results, seen) ==
    IF results = <<>> THEN <<>>
    ELSE IF Head(results).entry \in seen
         THEN KeysInOrder(Tail(results), seen)
         ELSE <<Head(results).entry>>
              \o KeysInOrder(Tail(results), seen \cup {Head(results).entry})
LastIndexOf(results, id) ==
    CHOOSE k \in 1..Len(results) :
        /\ results[k].entry = id
        /\ \A j \in (k + 1)..Len(results) : results[j].entry # id
BuildEntryMap(results) ==
    [id \in {results[k].entry : k \in 1..Len(results)} |->
        [manager_name |-> results[LastIndexOf(results, id)].player_name,
         team_name |-> results[LastIndexOf(results, id)].entry_name]]

\* lines 12-22.  The status code of the response is not read: the run goes
\* on whenever the body parses and holds standings.results.
FetchLeague(LeagueResponses) ==
    /\ pc = "league"
    /\ \E r \in LeagueResponses :
        /\ response' = r
        /\ requests' = requests + 1
        /\ IF r.body.kind = "standings"
           THEN /\ entry_map' = BuildEntryMap(r.body.results)
                /\ entries' = KeysInOrder(r.body.results, {})
                /\ pc' = "bootstrap"
           ELSE /\ pc' = "crashed"
                /\ UNCHANGED <<entry_map, entries>>
    /\ UNCHANGED <<bootstrap_status, id_to_name, id_to_team, id_to_position,
                   entry_idx, chip_data, free_hit_by_entry,
                   triple_captain_week_by_entry, hist_log, gw, player_points_map,
                   captaincy_data, live_log, picks_log, all_transfers,
                   transfers_log, df_transfers, workbook>>

\* lines 30-32: the three comprehensions over elements (a later element
\* with the same id replaces an earlier one).
LastElement(elements, id) ==
    elements[CHOOSE k \in 1..Len(elements) :
        /\ elements[k].id = id
        /\ \A j \in (k + 1)..Len(elements) : elements[j].id # id]
ElementIds(elements) == {elements[k].id : k \in 1..Len(elements)}
CatalogIndexable(body) ==
    \A k \in 1..Len(body.elements) :
        /\ InRange(body.teams, body.elements[k].team - 1)
        /\ InRange(body.element_types, body.elements[k].element_type - 1)

\* lines 25-32.  As in FetchLeague, no status code is read.
FetchBootstrap(BootstrapResponses) ==
    /\ pc = "bootstrap"
    /\ \E r \in BootstrapResponses :
        /\ bootstrap_status' = r.status_code
        /\ requests' = requests + 1
        /\ IF r.body.kind = "catalog" /\ CatalogIndexable(r.body)
           THEN /\ id_to_name' = [id \in ElementIds(r.body.elements) |->
                                    LastElement(r.body.elements, id).web_name]
                /\ id_to_team' = [id \in ElementIds(r.body.elements) |->
                                    PyIndex(r.body.teams,
                                        LastElement(r.body.elements, id).team - 1)]
                /\ id_to_position' = [id \in ElementIds(r.body.elements) |->
                                    PyIndex(r.body.element_types,
                                        LastElement(r.body.elements, id).element_type - 1)]
                /\ entry_idx' = 1
                /\ gw' = IF entries = <<>> THEN 1 ELSE gw
                /\ pc' = IF entries = <<>> THEN "captaincy_live" ELSE "chips"
           ELSE /\ pc' = "crashed"
                /\ UNCHANGED <<id_to_name, id_to_team, id_to_position, entry_idx, gw>>
    /\ UNCHANGED <<response, entry_map, entries, chip_data, free_hit_by_entry,
                   triple_captain_week_by_entry, hist_log, player_points_map,
                   captaincy_data, live_log, picks_log, all_transfers,
                   transfers_log, df_transfers, workbook>>

----------------------------------------------------------------------------
(* Step 1: chip usage, lines 35-97 *)

\* NewChipState with the points field started at the number 0.
NewChipStateZeroPoints(entry_id) ==
    [chip_dict |->
        [Manager_Name |-> entry_map[entry_id].manager_name,
         Team_Name |-> entry_map[entry_id].team_name,
         Wildcard_1 |-> Dash, Wildcard_2 |-> Dash, Free_Hit |-> Dash,
         Bench_Boost |-> Dash, Triple_Captain |-> Dash,
         Triple_Captain_Player |-> DashStr, TC_Points |-> 0],
     free_hit_week |-> None,
     triple_captain_week |-> None]

\* lines 44-57: the record and the two locals an entry starts with.
NewChipState(entry_id) ==
    [chip_dict |->
        [Manager_Name |-> entry_map[entry_id].manager_name,
         Team_Name |-> entry_map[entry_id].team_name,
         Wildcard_1 |-> Dash, Wildcard_2 |-> Dash, Free_Hit |-> Dash,
         Bench_Boost |-> Dash, Triple_Captain |-> Dash,
         Triple_Captain_Player |-> DashStr, TC_Points |-> Dash],
     free_hit_week |-> None,
     triple_captain_week |-> None]

\* The rest of ApplyChip: lines 69-76.
ApplyOtherChip(st, chip) ==
    IF chip.name = "freehit"
    THEN [st EXCEPT !.chip_dict.Free_Hit = chip.event,
                    !.free_hit_week = chip.event]
    ELSE IF chip.name = "3xc"
    THEN [st EXCEPT !.chip_dict.Triple_Captain = chip.event,
                    !.triple_captain_week = chip.event]
    ELSE IF chip.name = "bboost"
    THEN [st EXCEPT !.chip_dict.Bench_Boost = chip.event]
    ELSE st

\* ApplyChip with "gw < 20" for "gw <= 20".
ApplyChipStrict(st, chip) ==
    IF chip.name = "wildcard"
    THEN IF chip.event < WildcardThreshold
         THEN [st EXCEPT !.chip_dict.Wildcard_1 = chip.event]
         ELSE [st EXCEPT !.chip_dict.Wildcard_2 = chip.event]
    ELSE ApplyOtherChip(st, chip)

\* ApplyChip with the two wildcard slots exchanged.
ApplyChipSwapped(st, chip) ==
    IF chip.name = "wildcard"
    THEN IF chip.event <= WildcardThreshold
         THEN [st EXCEPT !.chip_dict.Wildcard_2 = chip.event]
         ELSE [st EXCEPT !.chip_dict.Wildcard_1 = chip.event]
    ELSE ApplyOtherChip(st, chip)

\* ApplyChip where the first activation of a chip is kept, not the last.
ApplyChipFirstWins(st, chip) ==
    IF chip.name = "freehit" /\ st.free_hit_week # None THEN st
    ELSE IF chip.name = "3xc" /\ st.triple_captain_week # None THEN st
    ELSE IF chip.name = "wildcard"
    THEN IF chip.event <= WildcardThreshold
         THEN [st EXCEPT !.chip_dict.Wildcard_1 = chip.event]
         ELSE [st EXCEPT !.chip_dict.Wildcard_2 = chip.event]
    ELSE ApplyOtherChip(st, chip)

\* lines 62-76: the body of "for chip in chips".
ApplyChip(st, chip) ==
    IF chip.name = "wildcard"
    THEN IF chip.event <= WildcardThreshold
         THEN [st EXCEPT !.chip_dict.Wildcard_1 = chip.event]
         ELSE [st EXCEPT !.chip_dict.Wildcard_2 = chip.event]
    ELSE ApplyOtherChip(st, chip)

\* lines 59-61: the loop over the chip list of a successful response.
RECURSIVE ChipLoop(_, _)
ChipLoop(st, chips) ==
    IF chips = <<>> THEN st ELSE ChipLoop(ApplyChip(st, Head(chips)), Tail(chips))

\* lines 89, 125: next((p['element'] for p in picks if p['is_captain']), None)
RECURSIVE FirstCaptain(_)
FirstCaptain(picks) ==
    IF picks = <<>> THEN None
    ELSE IF Head(picks).is_captain THEN Head(picks).element
    ELSE FirstCaptain(Tail(picks))

\* lines 94, 115: {p['id']: p['stats']['total_points'] for p in elements}
PointsMap(elements) ==
    [id \in {elements[k].id : k \in 1..Len(elements)} |->
        elements[CHOOSE k \in 1..Len(elements) :
            /\ elements[k].id = id
            /\ \A j \in (k + 1)..Len(elements) : elements[j].id # id].total_points]

\* Ok without the test: every response is taken for a success.
OkAlways(resp) == TRUE

\* lines 59, 88, 111, 121, 155: the test of a response's status.
Ok(resp) == resp.status_code = 200

\* lines 81-95: the captain and the points of the triple-captain gameweek.
TripleCaptainDetails(chip_dict, picks_resp, live_resp) ==
    IF Ok(picks_resp) /\ Ok(live_resp)
    THEN LET captain_id == FirstCaptain(picks_resp.picks)
         IN  IF Truthy(captain_id)
             THEN [chip_dict EXCEPT
                    !.Triple_Captain_Player = Get(id_to_name, captain_id, DashStr),
                    !.TC_Points = Get(PointsMap(live_resp.elements), captain_id, Dash)]
             ELSE chip_dict
    ELSE chip_dict

\* lines 89, 94: the two .json() calls of the triple-captain lookup raise
\* on a body that is not the JSON document of a success.
TripleCaptainRaises(picks_resp, live_resp) ==
    /\ Ok(picks_resp) /\ Ok(live_resp)
    /\ \/ ~picks_resp.json
       \/ Truthy(FirstCaptain(picks_resp.picks)) /\ ~live_resp.json

\* lines 40-97: one iteration of "for entry_id in entries".
ChipEntry(HistoryResponses, TCPicksResponses, TCLiveResponses) ==
    /\ pc = "chips"
    /\ \E resp \in HistoryResponses, picks_resp \in TCPicksResponses,
          live_resp \in TCLiveResponses :
        LET entry_id == entries[entry_idx]
            chips == IF Ok(resp) THEN resp.chips ELSE <<>>
            st == ChipLoop(NewChipState(entry_id), chips)
            looks_up == Truthy(st.triple_captain_week)
            chip_dict == IF looks_up
                         THEN TripleCaptainDetails(st.chip_dict, picks_resp, live_resp)
                         ELSE st.chip_dict
            tables == /\ free_hit_by_entry' =
                            [e \in DOMAIN free_hit_by_entry \cup {entry_id} |->
                                IF e = entry_id THEN st.free_hit_week
                                ELSE free_hit_by_entry[e]]
                      /\ triple_captain_week_by_entry' =
                            [e \in DOMAIN triple_captain_week_by_entry \cup {entry_id} |->
                                IF e = entry_id THEN st.triple_captain_week
                                ELSE triple_captain_week_by_entry[e]]
        IN  /\ hist_log' = Append(hist_log, resp)
            /\ IF Ok(resp) /\ ~resp.json
               THEN \* line 60: resp.json() raises
                    /\ pc' = "crashed"
                    /\ requests' = requests + 1
                    /\ UNCHANGED <<free_hit_by_entry, triple_captain_week_by_entry,
                                   chip_data, entry_idx, gw>>
               ELSE IF looks_up /\ TripleCaptainRaises(picks_resp, live_resp)
               THEN /\ pc' = "crashed"
                    /\ requests' = requests + 3
                    /\ tables
                    /\ UNCHANGED <<chip_data, entry_idx, gw>>
               ELSE /\ tables
                    /\ requests' = requests + (IF looks_up THEN 3 ELSE 1)
                    /\ chip_data' = Append(chip_data, chip_dict)
                    /\ entry_idx' = IF entry_idx = Len(entries) THEN 1 ELSE entry_idx + 1
                    /\ pc' = IF entry_idx = Len(entries) THEN "captaincy_live" ELSE "chips"
                    /\ gw' = IF entry_idx = Len(entries) THEN 1 ELSE gw
    /\ UNCHANGED <<response, bootstrap_status, entry_map, entries, id_to_name,
                   id_to_team, id_to_position, player_points_map, captaincy_data,
                   live_log, picks_log, all_transfers, transfers_log,
                   df_transfers, workbook>>

----------------------------------------------------------------------------
(* Step 2: captaincy, lines 103-145 *)

\* Where the script goes when the body of "for gw in range(1, 39)" ends.
AfterGameweek(g) ==
    IF g < LastGameweek THEN "captaincy_live"
    ELSE IF entries = <<>> THEN "sort" ELSE "transfers"

\* lines 105-115: the head of one gameweek, up to the live-scores fetch.
CaptaincyGameweek(LiveResponses) ==
    /\ pc = "captaincy_live"
    /\ \E live_resp \in LiveResponses :
        /\ live_log' = Append(live_log, live_resp.status_code)
        /\ requests' = requests + 1
        /\ IF ~Ok(live_resp)
           THEN \* lines 111-113: continue
                /\ pc' = AfterGameweek(gw)
                /\ gw' = gw + 1
                /\ UNCHANGED player_points_map
           ELSE IF ~live_resp.json
           THEN \* line 115: live_resp.json() raises
                /\ pc' = "crashed"
                /\ UNCHANGED <<gw, player_points_map>>
           ELSE /\ player_points_map' = PointsMap(live_resp.elements)
                /\ pc' = IF entries = <<>> THEN AfterGameweek(gw) ELSE "captaincy_picks"
                /\ gw' = IF entries = <<>> THEN gw + 1 ELSE gw
    /\ entry_idx' = 1
    /\ UNCHANGED <<response, bootstrap_status, entry_map, entries, id_to_name,
                   id_to_team, id_to_position, chip_data, free_hit_by_entry,
                   triple_captain_week_by_entry, hist_log, captaincy_data,
                   picks_log, all_transfers, transfers_log, df_transfers, workbook>>

\* CaptaincyRecord with the flag read from the free-hit table.
CaptaincyRecordFreeHit(entry_id, g, captain_id) ==
    [Manager_Name |-> entry_map[entry_id].manager_name,
     Team_Name |-> entry_map[entry_id].team_name,
     Gameweek |-> g,
     Captain |-> Get(id_to_name, captain_id, DashStr),
     Captain_Points |-> Get(player_points_map, captain_id, Dash),
     Triple_Captain_Used |->
        IF g = Get(free_hit_by_entry, entry_id, None) THEN "Yes" ELSE "No"]

\* lines 127-142: the record of one entry in one gameweek.
CaptaincyRecord(entry_id, g, captain_id) ==
    [Manager_Name |-> entry_map[entry_id].manager_name,
     Team_Name |-> entry_map[entry_id].team_name,
     Gameweek |-> g,
     Captain |-> Get(id_to_name, captain_id, DashStr),
     Captain_Points |-> Get(player_points_map, captain_id, Dash),
     Triple_Captain_Used |->
        IF g = Get(triple_captain_week_by_entry, entry_id, None) THEN "Yes" ELSE "No"]

\* InnerLoopEnds with "break" for "continue" after a failed picks fetch.
InnerLoopBreaks(picks_resp) == entry_idx = Len(entries) \/ picks_resp.status_code # 200

\* lines 117-122: the inner loop goes on to the next entry after a failed
\* picks fetch (continue), and ends after the last entry.
InnerLoopEnds(picks_resp) == entry_idx = Len(entries)

\* lines 117-142: one iteration of the inner "for entry_id in entries".
CaptaincyEntry(PicksResponses) ==
    /\ pc = "captaincy_picks"
    /\ \E picks_resp \in PicksResponses :
        LET entry_id == entries[entry_idx]
            picks == IF Ok(picks_resp) THEN picks_resp.picks ELSE <<>>
            captain_id == FirstCaptain(picks)
        IN  /\ picks_log' = Append(picks_log,
                   [entry |-> entry_id, gw |-> gw, status_code |-> picks_resp.status_code,
                    picks |-> picks_resp.picks])
            /\ IF Ok(picks_resp) /\ ~picks_resp.json
               THEN \* line 124: picks_resp.json() raises
                    /\ pc' = "crashed"
                    /\ UNCHANGED <<captaincy_data, gw, entry_idx>>
               ELSE /\ captaincy_data' =
                          IF Ok(picks_resp) /\ Truthy(captain_id)
                          THEN Append(captaincy_data,
                                      CaptaincyRecord(entry_id, gw, captain_id))
                          ELSE captaincy_data
                    /\ IF InnerLoopEnds(picks_resp)
                       THEN /\ pc' = AfterGameweek(gw)
                            /\ gw' = gw + 1
                            /\ entry_idx' = 1
                       ELSE /\ pc' = "captaincy_picks"
                            /\ gw' = gw
                            /\ entry_idx' = entry_idx + 1
    /\ requests' = requests + 1
    /\ UNCHANGED <<response, bootstrap_status, entry_map, entries, id_to_name,
                   id_to_team, id_to_position, chip_data, free_hit_by_entry,
                   triple_captain_week_by_entry, hist_log, player_points_map,
                   live_log, all_transfers, transfers_log, df_transfers, workbook>>

----------------------------------------------------------------------------
(* Step 3: transfers, lines 148-180 *)

\* line 158: the filter on the two player ids.
InCatalog(t) == t.element_in \in DOMAIN id_to_name /\ t.element_out \in DOMAIN id_to_name

\* lines 161-174: the record of one transfer.
TransferRecord(entry_id, t) ==
    [Manager_Name |-> entry_map[entry_id].manager_name,
     Team_Name |-> entry_map[entry_id].team_name,
     Gameweek |-> t.event,
     Player_Out |-> id_to_name[t.element_out],
     Out_Team |-> id_to_team[t.element_out],
     Out_Position |-> id_to_position[t.element_out],
     Player_In |-> id_to_name[t.element_in],
     In_Team |-> id_to_team[t.element_in],
     In_Position |-> id_to_position[t.element_in],
     Free_Hit_Active |->
        IF t.event = Get(free_hit_by_entry, entry_id, None) THEN "Yes" ELSE "No"]

\* TransferLoop with "break" for "continue" at a transfer of an unknown player.
RECURSIVE TransferLoopBreak(_, _, _)
TransferLoopBreak(acc, entry_id, transfers) ==
    IF transfers = <<>> \/ ~InCatalog(Head(transfers)) THEN acc
    ELSE TransferLoopBreak(Append(acc, TransferRecord(entry_id, Head(transfers))),
                           entry_id, Tail(transfers))

\* lines 157-174: "for t in transfers".
RECURSIVE TransferLoop(_, _, _)
TransferLoop(acc, entry_id, transfers) ==
    IF transfers = <<>> THEN acc
    ELSE TransferLoop(
            IF InCatalog(Head(transfers))
            THEN Append(acc, TransferRecord(entry_id, Head(transfers)))
            ELSE acc,
            entry_id, Tail(transfers))

\* lines 151-174: one iteration of "for entry_id in entries".
TransferEntry(TransferResponses) ==
    /\ pc = "transfers"
    /\ \E resp \in TransferResponses :
        /\ transfers_log' = Append(transfers_log, resp)
        /\ IF Ok(resp) /\ ~resp.json
           THEN \* line 156: resp.json() raises
                /\ pc' = "crashed"
                /\ UNCHANGED <<all_transfers, entry_idx>>
           ELSE /\ all_transfers' =
                      IF Ok(resp)
                      THEN TransferLoop(all_transfers, entries[entry_idx], resp.transfers)
                      ELSE all_transfers
                /\ entry_idx' = entry_idx + 1
                /\ pc' = IF entry_idx = Len(entries) THEN "sort" ELSE "transfers"
    /\ requests' = requests + 1
    /\ UNCHANGED <<response, bootstrap_status, entry_map, entries, id_to_name,
                   id_to_team, id_to_position, chip_data, free_hit_by_entry,
                   triple_captain_week_by_entry, hist_log, gw, player_points_map,
                   captaincy_data, live_log, picks_log, df_transfers, workbook>>

\* Lexical order of the manager names of the standings (Python str order).
NameOrder == <<"Ann", "Bob">>
NameRank(name) == CHOOSE k \in 1..Len(NameOrder) : NameOrder[k] = name

\* line 180: the order of by=['Gameweek', 'Manager Name'].
KeyLeq(a, b) ==
    \/ a.Gameweek < b.Gameweek
    \/ /\ a.Gameweek = b.Gameweek
       /\ NameRank(a.Manager_Name) <= NameRank(b.Manager_Name)

\* InsertSorted that puts a row before the rows of equal key.
RECURSIVE InsertSortedUnstable(_, _)
InsertSortedUnstable(sorted, r) ==
    IF sorted = <<>> THEN <<r>>
    ELSE IF ~KeyLeq(r, sorted[Len(sorted)]) THEN Append(sorted, r)
    ELSE Append(InsertSortedUnstable(SubSeq(sorted, 1, Len(sorted) - 1), r),
                sorted[Len(sorted)])

\* line 180: sort_values on several columns is a stable sort of the rows.
RECURSIVE InsertSorted(_, _)
InsertSorted(sorted, r) ==
    IF sorted = <<>> THEN <<r>>
    ELSE IF KeyLeq(sorted[Len(sorted)], r) THEN Append(sorted, r)
    ELSE Append(InsertSorted(SubSeq(sorted, 1, Len(sorted) - 1), r), sorted[Len(sorted)])
RECURSIVE SortValues(_)
SortValues(rows) ==
    IF rows = <<>> THEN <<>>
    ELSE InsertSorted(SortValues(SubSeq(rows, 1, Len(rows) - 1)), rows[Len(rows)])

\* lines 177-180.
SortTransfers ==
    /\ pc = "sort"
    /\ df_transfers' = IF all_transfers # <<>> THEN SortValues(all_transfers)
                       ELSE all_transfers
    /\ pc' = "write"
    /\ UNCHANGED <<response, bootstrap_status, entry_map, entries, id_to_name,
                   id_to_team, id_to_position, entry_idx, chip_data,
                   free_hit_by_entry, triple_captain_week_by_entry, hist_log, gw,
                   player_points_map, captaincy_data, live_log, picks_log,
                   all_transfers, transfers_log, workbook, requests>>

----------------------------------------------------------------------------
(* Steps 4 and 5: the workbook, lines 183-203 *)

\* lines 186-189: the three sheets, in this order.
WriteWorkbook ==
    /\ pc = "write"
    /\ workbook' = [written |-> TRUE,
                    sheets |-> <<"Transfers", "Chip Usage", "Captaincy">>,
                    Transfers |-> df_transfers,
                    Chip_Usage |-> chip_data,
                    Captaincy |-> captaincy_data,
                    green |-> {}]
    /\ pc' = "highlight"
    /\ UNCHANGED <<response, bootstrap_status, entry_map, entries, id_to_name,
                   id_to_team, id_to_position, entry_idx, chip_data,
                   free_hit_by_entry, triple_captain_week_by_entry, hist_log, gw,
                   player_points_map, captaincy_data, live_log, picks_log,
                   all_transfers, transfers_log, df_transfers, requests>>

\* lines 192-201: the rows of the Captaincy sheet filled green.
Highlight ==
    /\ pc = "highlight"
    /\ workbook' = [workbook EXCEPT !.green =
                       {k \in 1..Len(workbook.Captaincy) :
                           workbook.Captaincy[k].Triple_Captain_Used = "Yes"}]
    /\ pc' = "done"
    /\ UNCHANGED <<response, bootstrap_status, entry_map, entries, id_to_name,
                   id_to_team, id_to_position, entry_idx, chip_data,
                   free_hit_by_entry, triple_captain_week_by_entry, hist_log, gw,
                   player_points_map, captaincy_data, live_log, picks_log,
                   all_transfers, transfers_log, df_transfers, requests>>

----------------------------------------------------------------------------
(* The run *)

Init ==
    /\ pc = "league"
    /\ response = [status_code |-> 0, body |-> NotJsonBody]
    /\ bootstrap_status = 0
    /\ entry_map = <<>>
    /\ entries = <<>>
    /\ id_to_name = <<>>
    /\ id_to_team = <<>>
    /\ id_to_position = <<>>
    /\ entry_idx = 1
    /\ chip_data = <<>>
    /\ free_hit_by_entry = <<>>
    /\ triple_captain_week_by_entry = <<>>
    /\ hist_log = <<>>
    /\ gw = 0
    /\ player_points_map = <<>>
    /\ captaincy_data = <<>>
    /\ live_log = <<>>
    /\ picks_log = <<>>
    /\ all_transfers = <<>>
    /\ transfers_log = <<>>
    /\ df_transfers = <<>>
    /\ workbook = [written |-> FALSE, sheets |-> <<>>, Transfers |-> <<>>,
                   Chip_Usage |-> <<>>, Captaincy |-> <<>>, green |-> {}]
    /\ requests = 0

\* The script from top to bottom, against a data provider that answers
\* each kind of request from the given set of responses.
Run(env) ==
    \/ FetchLeague(env.league)
    \/ FetchBootstrap(env.bootstrap)
    \/ ChipEntry(env.history, env.tc_picks, env.tc_live)
    \/ CaptaincyGameweek(env.live)
    \/ CaptaincyEntry(env.picks)
    \/ TransferEntry(env.transfers)
    \/ SortTransfers
    \/ WriteWorkbook
    \/ Highlight

----------------------------------------------------------------------------
(* The data provider *)

Response(status_code, body) == [status_code |-> status_code, body |-> body]

\* Standings and catalog answers: every pairing of a status with a body,
\* and the two a well-behaved provider sends.
LeagueAny == {Response(s, b) : s \in {200, 404}, b \in {StandingsBody, NotJsonBody}}
LeagueUsual == {Response(200, StandingsBody), Response(404, NotJsonBody)}
BootstrapAny == {Response(s, b) : s \in {200, 404},
                    b \in {CatalogBody, CatalogBadTeamBody, NotJsonCatalog}}
BootstrapUsual == {Response(200, CatalogBody), Response(404, NotJsonCatalog)}

Chip(name, event) == [name |-> name, event |-> event]
\* json: the body is the JSON document of a success; the provider sends it
\* with status 200 and an error page otherwise.
History(status_code, chips) ==
    [status_code |-> status_code, json |-> status_code = 200, chips |-> chips]

\* Chip activations around the wildcard threshold.
ChipPool ==
    {Chip("wildcard", WildcardThreshold - 1), Chip("wildcard", WildcardThreshold),
     Chip("wildcard", WildcardThreshold + 1),
     Chip("freehit", WildcardThreshold),
     Chip("3xc", WildcardThreshold), Chip("3xc", WildcardThreshold + 1),
     Chip("bboost", WildcardThreshold)}
HistoryRich ==
    {History(404, <<>>)} \cup {History(200, cs) : cs \in SeqUpTo(ChipPool, MaxChips)}

\* Seasons whose chips fall in the gameweeks the captaincy loop walks: no
\* history, no chip, one use of each chip, and each chip used twice.
HistoryFew ==
    {History(404, <<>>), History(200, <<>>),
     History(200, <<Chip("3xc", 1), Chip("freehit", 2)>>),
     History(200, <<Chip("freehit", 2), Chip("3xc", 1),
                    Chip("3xc", 2), Chip("freehit", 1)>>)}

Pick(element, is_captain) == [element |-> element, is_captain |-> is_captain]
Picks(status_code, picks) ==
    [status_code |-> status_code, json |-> status_code = 200, picks |-> picks]
PicksFew == {Picks(404, <<>>), Picks(200, <<Pick(2, FALSE), Pick(1, TRUE)>>)}
PicksRich ==
    {Picks(404, <<>>),
     Picks(200, <<Pick(1, FALSE), Pick(2, FALSE)>>),
     Picks(200, <<Pick(2, FALSE), Pick(1, TRUE)>>),
     Picks(200, <<Pick(2, TRUE)>>),
     Picks(200, <<Pick(3, TRUE), Pick(1, TRUE)>>)}

Score(id, total_points) == [id |-> id, total_points |-> total_points]
Live(status_code, elements) ==
    [status_code |-> status_code, json |-> status_code = 200, elements |-> elements]
LiveUp == {Live(200, <<Score(1, 5), Score(3, 2)>>)}
LiveFew == {Live(404, <<>>)} \cup LiveUp

Transfer(event, element_in, element_out) ==
    [event |-> event, element_in |-> element_in, element_out |-> element_out]
Transfers(status_code, transfers) ==
    [status_code |-> status_code, json |-> status_code = 200, transfers |-> transfers]
\* Player 3 is in no catalog body.
TransferPool ==
    {Transfer(2, 1, 2), Transfer(1, 2, 1), Transfer(1, 1, 2),
     Transfer(1, 3, 1), Transfer(2, 1, 3)}
TransfersRich ==
    {Transfers(404, <<>>)}
    \cup {Transfers(200, ts) : ts \in SeqUpTo(TransferPool, MaxTransfers)}
TransfersFew ==
    {Transfers(404, <<>>),
     Transfers(200, <<Transfer(2, 1, 2), Transfer(1, 2, 1), Transfer(1, 3, 1)>>)}
TransfersDown == {Transfers(404, <<>>)}

\* Every status of every later fetch, small payloads.
EnvWhole ==
    [league |-> LeagueAny, bootstrap |-> BootstrapAny, history |-> HistoryFew,
     tc_picks |-> PicksFew, tc_live |-> LiveFew, live |-> LiveFew,
     picks |-> PicksFew, transfers |-> TransfersFew]
\* Every chip list up to MaxChips.
EnvChips ==
    [league |-> LeagueUsual, bootstrap |-> BootstrapUsual, history |-> HistoryRich,
     tc_picks |-> PicksFew, tc_live |-> LiveFew, live |-> LiveUp,
     picks |-> {Picks(404, <<>>)}, transfers |-> TransfersDown]
\* Every kind of picks answer in every gameweek.
EnvCaptaincy ==
    [league |-> LeagueUsual, bootstrap |-> BootstrapUsual, history |-> HistoryFew,
     tc_picks |-> {Picks(404, <<>>)}, tc_live |-> LiveUp, live |-> LiveFew,
     picks |-> PicksRich]
\* Every transfer log up to MaxTransfers.
EnvTransfers ==
    [league |-> LeagueUsual, bootstrap |-> BootstrapUsual,
     history |-> {History(404, <<>>), History(200, <<Chip("freehit", 1)>>)},
     tc_picks |-> {Picks(404, <<>>)}, tc_live |-> LiveUp, live |-> LiveUp,
     picks |-> {Picks(404, <<>>)}, transfers |-> TransfersRich]

\* Every status of every later fetch, one payload per kind of fetch.
EnvStatuses ==
    [league |-> LeagueUsual, bootstrap |-> BootstrapUsual,
     history |-> {History(404, <<>>), History(200, <<Chip("3xc", 1)>>)},
     tc_picks |-> PicksFew, tc_live |-> LiveFew, live |-> LiveFew,
     picks |-> PicksFew,
     transfers |-> {Transfers(404, <<>>), Transfers(200, <<Transfer(1, 2, 1)>>)}]

Next == Run(EnvWhole)
Spec == Init /\ [][Next]_vars

\* The script is one thread that never waits on anything but a response,
\* and every request is answered: the run always takes its next step.
NextStatuses == Run(EnvStatuses)
FairSpec == Init /\ [][NextStatuses]_vars /\ WF_vars(NextStatuses)

\* Step 1 alone: the run up to the end of the chip loop.
NextChips ==
    \/ FetchLeague(EnvChips.league)
    \/ FetchBootstrap(EnvChips.bootstrap)
    \/ ChipEntry(EnvChips.history, EnvChips.tc_picks, EnvChips.tc_live)
SpecChips == Init /\ [][NextChips]_vars

\* Steps 1 and 2: the run up to the end of the captaincy loop.
NextCaptaincy ==
    \/ FetchLeague(EnvCaptaincy.league)
    \/ FetchBootstrap(EnvCaptaincy.bootstrap)
    \/ ChipEntry(EnvCaptaincy.history, EnvCaptaincy.tc_picks, EnvCaptaincy.tc_live)
    \/ CaptaincyGameweek(EnvCaptaincy.live)
    \/ CaptaincyEntry(EnvCaptaincy.picks)
SpecCaptaincy == Init /\ [][NextCaptaincy]_vars

NextTransfers == Run(EnvTransfers)
SpecTransfers == Init /\ [][NextTransfers]_vars

----------------------------------------------------------------------------
(* Properties of step 1 (chip usage), checked under SpecChips *)

\* The gameweek of the last wildcard activation of chips whose gameweek is
\* in weeks, or the sentinel when there is none.
LastWildcard(chips, weeks) ==
    LET hits == {j \in 1..Len(chips) :
                    chips[j].name = "wildcard" /\ chips[j].event \in weeks}
    IN  IF hits = {} THEN Dash
        ELSE chips[CHOOSE j \in hits : \A h \in hits : h <= j].event
Season == 1..38
UpTo20 == {g \in Season : g <= 20}
After20 == {g \in Season : g > 20}
Before20 == {g \in Season : g < 20}
From20 == {g \in Season : g >= 20}
IsWildcardList(chips, events) ==
    /\ Len(chips) = Len(events)
    /\ \A j \in 1..Len(chips) : chips[j] = Chip("wildcard", events[j])

\* C2: a wildcard activation at gameweek 20 is stored in 'Wildcard 1' and one
\* at gameweek 21 in 'Wildcard 2'; in general every wildcard activation with
\* gameweek <= 20 goes to 'Wildcard 1' and every one with gameweek > 20 to
\* 'Wildcard 2' (the field holds the last activation of its half).
C2_WildcardBoundary ==
    \A k \in 1..Len(chip_data) :
        hist_log[k].status_code = 200 =>
            /\ chip_data[k].Wildcard_1 = LastWildcard(hist_log[k].chips, UpTo20)
            /\ chip_data[k].Wildcard_2 = LastWildcard(hist_log[k].chips, After20)
            /\ IsWildcardList(hist_log[k].chips, <<20>>) =>
                   chip_data[k].Wildcard_1 = 20 /\ chip_data[k].Wildcard_2 = Dash
            /\ IsWildcardList(hist_log[k].chips, <<21>>) =>
                   chip_data[k].Wildcard_1 = Dash /\ chip_data[k].Wildcard_2 = 21
C2_Witness ==
    \E k \in 1..Len(chip_data) :
        /\ IsWildcardList(hist_log[k].chips, <<20, 21>>)
        /\ chip_data[k].Wildcard_1 = 20
        /\ chip_data[k].Wildcard_2 = 21

\* C3 as stated: a wildcard activation strictly before gameweek 20 is
\* 'Wildcard 1' and one at or after gameweek 20 is 'Wildcard 2'.
C3_ThresholdExclusive ==
    \A k \in 1..Len(chip_data) :
        hist_log[k].status_code = 200 =>
            /\ chip_data[k].Wildcard_1 = LastWildcard(hist_log[k].chips, Before20)
            /\ chip_data[k].Wildcard_2 = LastWildcard(hist_log[k].chips, From20)
\* C3 as amended: a wildcard activation at a gameweek up to and including 20
\* is classified 'Wildcard 1' and one strictly after gameweek 20 'Wildcard 2':
\* a filled 'Wildcard 1' is the gameweek of an activation at most 20, a filled
\* 'Wildcard 2' that of one above 20, and each slot is filled when the list
\* has an activation of its half.
C3_ThresholdInclusive ==
    \A k \in 1..Len(chip_data) :
        hist_log[k].status_code = 200 =>
            LET chips == hist_log[k].chips
                events == {chips[j].event : j \in {i \in 1..Len(chips) :
                                                    chips[i].name = "wildcard"}}
            IN  /\ chip_data[k].Wildcard_1 # Dash <=> \E g \in events : g <= 20
                /\ chip_data[k].Wildcard_2 # Dash <=> \E g \in events : g > 20
                /\ chip_data[k].Wildcard_1 # Dash =>
                       chip_data[k].Wildcard_1 \in events /\ chip_data[k].Wildcard_1 <= 20
                /\ chip_data[k].Wildcard_2 # Dash =>
                       chip_data[k].Wildcard_2 \in events /\ chip_data[k].Wildcard_2 > 20
C3_Witness ==
    \E k \in 1..Len(chip_data) :
        /\ IsWildcardList(hist_log[k].chips, <<19, 20>>)
        /\ chip_data[k].Wildcard_1 = 20
        /\ chip_data[k].Wildcard_2 = Dash

AllSentinel(d) ==
    /\ d.Wildcard_1 = Dash /\ d.Wildcard_2 = Dash /\ d.Free_Hit = Dash
    /\ d.Bench_Boost = Dash /\ d.Triple_Captain = Dash
    /\ d.Triple_Captain_Player = "-" /\ d.TC_Points = Dash

\* C6: the chip table holds one record per league entry, in entry order; an
\* entry whose history fetch fails, or succeeds with an empty chip list, has
\* the sentinel in all seven chip fields, and the loop goes on to the next
\* entry.
C6_ChipSentinel ==
    /\ Len(chip_data) = Len(hist_log)
    /\ pc = "chips" => Len(chip_data) = entry_idx - 1 /\ entry_idx <= Len(entries)
    /\ pc \notin {"league", "bootstrap", "chips", "crashed"} =>
           Len(chip_data) = Len(entries)
    /\ \A k \in 1..Len(chip_data) :
        /\ chip_data[k].Manager_Name = entry_map[entries[k]].manager_name
        /\ chip_data[k].Team_Name = entry_map[entries[k]].team_name
        /\ (hist_log[k].status_code # 200 \/ hist_log[k].chips = <<>>) =>
               AllSentinel(chip_data[k])
C6_Witness ==
    /\ pc = "captaincy_live"
    /\ Len(chip_data) = 2
    /\ hist_log[1].status_code # 200
    /\ AllSentinel(chip_data[1])
    /\ hist_log[2].chips # <<>>
    /\ ~AllSentinel(chip_data[2])

----------------------------------------------------------------------------
(* Properties of step 2 (captaincy), checked under SpecCaptaincy *)

\* The entry a captaincy or transfer record belongs to, and its position
\* in entries.
EntryOf(r) ==
    CHOOSE e \in DOMAIN entry_map :
        /\ entry_map[e].manager_name = r.Manager_Name
        /\ entry_map[e].team_name = r.Team_Name
PosOf(e) == CHOOSE k \in 1..Len(entries) : entries[k] = e

\* The gameweek of the last activation of the chip called name, or None.
LastEvent(chips, name) ==
    LET hits == {j \in 1..Len(chips) : chips[j].name = name}
    IN  IF hits = {} THEN None
        ELSE chips[CHOOSE j \in hits : \A h \in hits : h <= j].event

\* C1: for an entry whose stored triple-captain gameweek is G, a captaincy
\* record at gameweek G has 'Triple Captain Used' = "Yes" and a record at any
\* other gameweek has "No"; an entry with no stored gameweek (no 3xc chip, or
\* a failed history fetch) has "No" on all its records.
C1_TripleCaptainFlag ==
    \A k \in 1..Len(captaincy_data) :
        LET r == captaincy_data[k]
            e == EntryOf(r)
            G == triple_captain_week_by_entry[e]
            h == hist_log[PosOf(e)]
        IN  /\ r.Triple_Captain_Used \in {"Yes", "No"}
            /\ G # None => (r.Triple_Captain_Used = "Yes" <=> r.Gameweek = G)
            /\ G = None => r.Triple_Captain_Used = "No"
            /\ (h.status_code # 200 \/ LastEvent(h.chips, "3xc") = None) =>
                   G = None /\ r.Triple_Captain_Used = "No"
C1_Witness ==
    /\ \E k, j \in 1..Len(captaincy_data) :
        /\ EntryOf(captaincy_data[k]) = EntryOf(captaincy_data[j])
        /\ captaincy_data[k].Gameweek =
               triple_captain_week_by_entry[EntryOf(captaincy_data[k])]
        /\ captaincy_data[k].Triple_Captain_Used = "Yes"
        /\ captaincy_data[j].Gameweek # captaincy_data[k].Gameweek
        /\ captaincy_data[j].Triple_Captain_Used = "No"
    /\ \E k \in 1..Len(captaincy_data) :
        /\ hist_log[PosOf(EntryOf(captaincy_data[k]))].status_code # 200
        /\ captaincy_data[k].Triple_Captain_Used = "No"

HasCaptain(picks) == \E j \in 1..Len(picks) : picks[j].is_captain
RecordsFor(e, g) ==
    {k \in 1..Len(captaincy_data) :
        EntryOf(captaincy_data[k]) = e /\ captaincy_data[k].Gameweek = g}
PicksFor(e, g) ==
    {j \in 1..Len(picks_log) : picks_log[j].entry = e /\ picks_log[j].gw = g}
LiveFetched(g) == g <= Len(live_log)

\* C9: the captaincy table holds a record for (E, g) exactly when the live
\* fetch of g succeeded, the picks fetch of (E, g) succeeded and those picks
\* have a captain-flagged pick, and at most one such record; after a failed
\* live fetch no picks fetch is issued for g; after a failed picks fetch the
\* other entries of g are still fetched.
C9_CaptaincyPresence ==
    \A g \in 1..LastGameweek :
        /\ \A e \in DOMAIN entry_map :
            /\ Cardinality(RecordsFor(e, g)) <= 1
            /\ Cardinality(PicksFor(e, g)) <= 1
            /\ RecordsFor(e, g) # {} <=>
                   /\ LiveFetched(g) /\ live_log[g] = 200
                   /\ \E j \in PicksFor(e, g) :
                        /\ picks_log[j].status_code = 200
                        /\ HasCaptain(picks_log[j].picks)
        /\ (LiveFetched(g) /\ live_log[g] # 200) =>
               \A e \in DOMAIN entry_map : PicksFor(e, g) = {}
        /\ (LiveFetched(g) /\ live_log[g] = 200 /\ gw > g) =>
               \A e \in DOMAIN entry_map : PicksFor(e, g) # {}
C9_Witness ==
    /\ pc = "transfers"
    /\ \E g, f \in 1..LastGameweek :
        /\ live_log[g] = 200
        /\ \E j \in PicksFor(entries[1], g) : picks_log[j].status_code # 200
        /\ RecordsFor(entries[1], g) = {}
        /\ RecordsFor(entries[2], g) # {}
        /\ live_log[f] # 200

----------------------------------------------------------------------------
(* Properties of step 3 (transfers), checked under SpecTransfers *)

\* C4: a transfer whose incoming or outgoing player id is absent from the
\* catalog yields no record; every other transfer of a successfully fetched
\* log yields exactly one, in log order, with its six name, team and
\* position fields taken from the catalog.
C4_TransferFiltering ==
    /\ Len(transfers_log) <= Len(entries)
    /\ \A k \in 1..Len(entries) :
        LET Mine(r) == EntryOf(r) = entries[k]
            Known(t) == /\ t.element_in \in DOMAIN id_to_name
                        /\ t.element_out \in DOMAIN id_to_name
            recs == SelectSeq(all_transfers, Mine)
            kept == IF k <= Len(transfers_log) /\ transfers_log[k].status_code = 200
                    THEN SelectSeq(transfers_log[k].transfers, Known)
                    ELSE <<>>
        IN  /\ Len(recs) = Len(kept)
            /\ \A j \in 1..Len(recs) :
                /\ recs[j].Gameweek = kept[j].event
                /\ recs[j].Player_In = id_to_name[kept[j].element_in]
                /\ recs[j].In_Team = id_to_team[kept[j].element_in]
                /\ recs[j].In_Position = id_to_position[kept[j].element_in]
                /\ recs[j].Player_Out = id_to_name[kept[j].element_out]
                /\ recs[j].Out_Team = id_to_team[kept[j].element_out]
                /\ recs[j].Out_Position = id_to_position[kept[j].element_out]
C4_Witness ==
    /\ pc = "sort"
    /\ \E k \in 1..Len(transfers_log) :
        /\ transfers_log[k].status_code = 200
        /\ Len(transfers_log[k].transfers) = 2
        /\ transfers_log[k].transfers[1].element_in \notin DOMAIN id_to_name
        /\ transfers_log[k].transfers[2].element_in \in DOMAIN id_to_name
        /\ transfers_log[k].transfers[2].element_out \in DOMAIN id_to_name
        /\ \E j \in 1..Len(all_transfers) : EntryOf(all_transfers[j]) = entries[k]

NameLeq(a, b) == a = b \/ (a = "Ann" /\ b = "Bob")
SameKey(a, b) == a.Gameweek = b.Gameweek /\ a.Manager_Name = b.Manager_Name

\* C5: once the transfers are sorted, a non-empty result is non-decreasing
\* by gameweek and, within a gameweek, by manager name; it holds the
\* collected records, none added or lost, and the records of equal
\* (gameweek, manager name) keep their collection order.
C5_TransferSortOrder ==
    (pc \in {"write", "highlight", "done"} /\ all_transfers # <<>>) =>
        /\ Len(df_transfers) = Len(all_transfers)
        /\ \A i \in 1..(Len(df_transfers) - 1) :
            \/ df_transfers[i].Gameweek < df_transfers[i + 1].Gameweek
            \/ /\ df_transfers[i].Gameweek = df_transfers[i + 1].Gameweek
               /\ NameLeq(df_transfers[i].Manager_Name, df_transfers[i + 1].Manager_Name)
        /\ \A i \in 1..Len(all_transfers) :
            LET Like(r) == SameKey(r, all_transfers[i])
            IN  SelectSeq(df_transfers, Like) = SelectSeq(all_transfers, Like)
C5_Witness ==
    /\ pc = "write"
    /\ Len(df_transfers) >= 3
    /\ df_transfers # all_transfers
    /\ \E i \in 1..(Len(df_transfers) - 1) :
        /\ SameKey(df_transfers[i], df_transfers[i + 1])
        /\ df_transfers[i] # df_transfers[i + 1]

----------------------------------------------------------------------------
(* Properties of the whole run, checked under Spec and FairSpec *)

\* C10: when a chip list activates "3xc" or "freehit" more than once, the
\* stored gameweek (chip record and side table) is that of the last
\* activation in list order, so only the captaincy (transfer) records at
\* that last gameweek carry "Yes" and those at earlier activations "No".
C10_LastWriteWins ==
    /\ \A k \in 1..Len(chip_data) :
        hist_log[k].status_code = 200 =>
            LET tc == LastEvent(hist_log[k].chips, "3xc")
                fh == LastEvent(hist_log[k].chips, "freehit")
            IN  /\ triple_captain_week_by_entry[entries[k]] = tc
                /\ free_hit_by_entry[entries[k]] = fh
                /\ chip_data[k].Triple_Captain = IF tc = None THEN Dash ELSE tc
                /\ chip_data[k].Free_Hit = IF fh = None THEN Dash ELSE fh
    /\ \A k \in 1..Len(captaincy_data) :
        LET h == hist_log[PosOf(EntryOf(captaincy_data[k]))]
        IN  (h.status_code = 200 /\ LastEvent(h.chips, "3xc") # None) =>
                (captaincy_data[k].Triple_Captain_Used = "Yes"
                    <=> captaincy_data[k].Gameweek = LastEvent(h.chips, "3xc"))
    /\ \A rows \in {all_transfers, df_transfers, workbook.Transfers} :
        \A k \in 1..Len(rows) :
            LET h == hist_log[PosOf(EntryOf(rows[k]))]
            IN  (h.status_code = 200 /\ LastEvent(h.chips, "freehit") # None) =>
                    (rows[k].Free_Hit_Active = "Yes"
                        <=> rows[k].Gameweek = LastEvent(h.chips, "freehit"))
Activations(chips, name) == {j \in 1..Len(chips) : chips[j].name = name}
C10_Witness ==
    /\ pc = "done"
    /\ \E e \in DOMAIN entry_map :
        LET chips == hist_log[PosOf(e)].chips
        IN  /\ Cardinality(Activations(chips, "3xc")) > 1
            /\ Cardinality(Activations(chips, "freehit")) > 1
            /\ \E k, j \in 1..Len(captaincy_data) :
                /\ EntryOf(captaincy_data[k]) = e /\ EntryOf(captaincy_data[j]) = e
                /\ captaincy_data[k].Gameweek = chips[2].event
                /\ captaincy_data[k].Triple_Captain_Used = "No"
                /\ captaincy_data[j].Gameweek = chips[3].event
                /\ captaincy_data[j].Triple_Captain_Used = "Yes"
            /\ \E k, j \in 1..Len(df_transfers) :
                /\ EntryOf(df_transfers[k]) = e /\ EntryOf(df_transfers[j]) = e
                /\ df_transfers[k].Gameweek = chips[1].event
                /\ df_transfers[k].Free_Hit_Active = "No"
                /\ df_transfers[j].Gameweek = chips[4].event
                /\ df_transfers[j].Free_Hit_Active = "Yes"

\* C7: if the standings fetch or the catalog fetch returns a non-success
\* status, the run fails before any per-entry fetch is issued and before
\* any output is written.
C7_FatalOnNonSuccess ==
    (response.status_code \notin {0, 200} \/ bootstrap_status \notin {0, 200}) =>
        /\ pc = "crashed"
        /\ requests <= 2
        /\ ~workbook.written

\* The most requests a run issues: two for the reference data, one history
\* and up to two triple-captain lookups and one transfer log per entry, one
\* live fetch per gameweek and one picks fetch per entry and gameweek.
RequestBudget == 2 + Len(entries) * (4 + LastGameweek) + LastGameweek

\* C8: once the reference data is loaded, whatever the statuses of the later
\* fetches, the run never aborts and reaches the end of the script, with a
\* bounded number of requests; the workbook is written only after the three
\* aggregations have finished.
C8_RunCompletes ==
    /\ [][pc \notin {"league", "bootstrap"} => pc' # "crashed"]_vars
    /\ [](requests <= RequestBudget)
    /\ [](workbook.written =>
            /\ pc \in {"highlight", "done"}
            /\ Len(chip_data) = Len(entries)
            /\ Len(live_log) = LastGameweek
            /\ Len(transfers_log) = Len(entries)
            /\ workbook.Chip_Usage = chip_data
            /\ workbook.Captaincy = captaincy_data
            /\ workbook.Transfers = df_transfers)
    /\ (pc = "chips") ~> (pc = "done" /\ workbook.written)
C8_Witness ==
    /\ pc = "done"
    /\ workbook.written
    /\ \E k \in 1..Len(hist_log) : hist_log[k].status_code # 200
    /\ \E g \in 1..Len(live_log) : live_log[g] # 200
    /\ \E j \in 1..Len(picks_log) : picks_log[j].status_code # 200
    /\ \E k \in 1..Len(transfers_log) : transfers_log[k].status_code # 200

====
